---- MODULE Spec2Model ----
(***************************************************************************)
(* Model of deepagents_cli/tools.py: the module-level provider registry    *)
(* (_tavily_client, _serper_api_key, _ddg_available), the three search     *)
(* adapters, the web_search fallback chain, http_request and fetch_url.    *)
(*                                                                         *)
(* Python values are modelled as follows.                                  *)
(*   - a dict is a record (a function on a set of strings); "k in d" is    *)
(*     k \in DOMAIN d, d.get(k, v) is Get(d, k, v), d[k] = v is SetItem;   *)
(*   - a list is a sequence;                                               *)
(*   - None is the string None, the empty string is "";                    *)
(*   - a float score s is the integer 100 * s (1.0 is ScoreOne);           *)
(*   - an f-string "prefix: {e!s}" is the pair <<prefix, e>>;              *)
(*   - the outcome of evaluating a call is Return(v) or Raise(e).          *)
(***************************************************************************)
EXTENDS Integers, Sequences, FiniteSets, TLC

VARIABLES
    pc,              \* position of the process: module load / web_search
    tavily_client,   \* _tavily_client
    serper_api_key,  \* _serper_api_key
    ddg_available,   \* _ddg_available
    query,           \* web_search argument
    max_results,     \* web_search argument
    backend,         \* how each backend behaves during the current search
    attempts,        \* adapter invocations of the current search, in order
    network,         \* backends contacted over the network, in order
    result,          \* what web_search returned (NoResult before it returns)
    previous,        \* the finished execution a repeated search is compared with
    io,              \* arguments and transport behaviour of http_request / fetch_url
    outcome          \* how the http_request / fetch_url call ended

vars == <<pc, tavily_client, serper_api_key, ddg_available, query,
          max_results, backend, attempts, network, result, previous, io, outcome>>

registry == <<tavily_client, serper_api_key, ddg_available>>
call == <<query, max_results, backend, attempts, network, result>>
tools == <<io, outcome>>

----------------------------------------------------------------------------
(* Bounds of the model *)

\* longest result list a backend hands back
MaxBackendResults == 2
\* largest max_results a caller passes (max_results ranges over 1..MaxMaxResults)
MaxMaxResults == 2

----------------------------------------------------------------------------
(* Python values *)

None == "None"
TavilyClientObject == "TavilyClient"

\* "score": 1.0 of the adapters without native scoring, as 100 * score
ScoreOne == 100

Return(v) == [returns |-> v]
Raise(e) == [raises |-> e]
Raised(o) == "raises" \in DOMAIN o

\* bool(v) of an Optional[str] or Optional[object]
Truthy(v) == v # None /\ v # ""

\* d.get(k, default)
Get(d, k, default) == IF k \in DOMAIN d THEN d[k] ELSE default

\* d[k] = v
SetItem(d, k, v) == [kk \in DOMAIN d \cup {k} |-> IF kk = k THEN v ELSE d[kk]]

Min(a, b) == IF a <= b THEN a ELSE b
Max(a, b) == IF a >= b THEN a ELSE b

\* s[:n]
SliceTo(s, n) ==
    IF n >= 0 THEN SubSeq(s, 1, Min(n, Len(s)))
    ELSE SubSeq(s, 1, Max(Len(s) + n, 0))

SeqsUpTo(S, n) == UNION {[1..k -> S] : k \in 0..n}

----------------------------------------------------------------------------
(* The environment: what the three backends can do during one search *)

Providers == <<"tavily", "serper", "duckduckgo">>

\* a value that is not a dict (None, a list): item assignment and .get fail on it
NotADict(t) == [pytype |-> t]
IsDict(v) == "pytype" \notin DOMAIN v

\* raw result items as the backends name their fields
TavilyItems ==
    { [title |-> "T", url |-> "U", content |-> "C", score |-> 50],
      [title |-> "T", url |-> "U"] }
SerperItems ==
    { [title |-> "T", link |-> "U", snippet |-> "C"],
      [link |-> "U"] }
DdgItems ==
    { [title |-> "T", href |-> "U", body |-> "C"],
      [href |-> "U"] }

\* _tavily_client.search(...): raises, returns None, or returns a dict
TavilyBehaviours ==
    { [kind |-> "raises", exc |-> "InvalidAPIKeyError"],
      [kind |-> "returns_none"],
      [kind |-> "detail_body"] }
    \cup { [kind |-> "error_body", items |-> l] :
             l \in SeqsUpTo({[title |-> "T", url |-> "U", content |-> "C", score |-> 50]}, 1) }
    \cup { [kind |-> "results", items |-> l] :
             l \in SeqsUpTo(TavilyItems, MaxBackendResults) }

\* requests.post(...): raises, or returns a response with a status and a body
SerperBehaviours ==
    { [kind |-> "raises", exc |-> "ConnectionError"],
      [kind |-> "response", status_code |-> 429, body |-> "text"],
      [kind |-> "response", status_code |-> 200, body |-> "text"],
      [kind |-> "response", status_code |-> 200, body |-> "json_list"],
      [kind |-> "response", status_code |-> 200, body |-> "json_no_organic"] }
    \cup { [kind |-> "response", status_code |-> 200, body |-> "json_organic",
            items |-> l] : l \in SeqsUpTo(SerperItems, MaxBackendResults) }

\* DDGS() and ddgs.text(...)
DdgBehaviours ==
    { [kind |-> "ctor_raises", exc |-> "DuckDuckGoSearchException"],
      [kind |-> "text_raises", exc |-> "RatelimitException"] }
    \cup { [kind |-> "results", items |-> l] :
             l \in SeqsUpTo(DdgItems, MaxBackendResults) }

\* what a call does when the provider was never set up
TavilyNoClient == [kind |-> "no_client"]
SerperNoKey == [kind |-> "response", status_code |-> 403, body |-> "text"]
DdgNotLoaded == [kind |-> "not_loaded"]

----------------------------------------------------------------------------
(* The adapters *)

\* the faults the backends and the adapter bodies raise; each derives from Exception
ExceptionSubclasses ==
    { "InvalidAPIKeyError", "AttributeError", "TypeError", "ConnectionError",
      "HTTPError", "JSONDecodeError", "NameError", "DuckDuckGoSearchException",
      "RatelimitException", "ConnectTimeout", "ReadTimeout", "MissingSchema",
      "ValueError" }

\* a narrower clause, "except requests.exceptions.RequestException"
ExceptException_requestsOnly(e) == e \in {"ConnectionError", "HTTPError"}

\* "except Exception as e" catches e
ExceptException(e) == e \in ExceptionSubclasses

\* try: body / except Exception as e: return {"error": f"{prefix}{e!s}", "query": query}
TryExcept(body, prefix, q) ==
    IF Raised(body) /\ ExceptException(body.raises)
    THEN Return([error |-> <<prefix, body.raises>>, query |-> q])
    ELSE body

\* _tavily_client.search(query, max_results=..., include_raw_content=..., topic=...)
TavilyClientSearch(b, q, m) ==
    CASE b.kind = "raises" -> Raise(b.exc)
      [] b.kind = "no_client" -> Raise("AttributeError")
      [] b.kind = "returns_none" -> Return(NotADict("NoneType"))
      [] b.kind = "detail_body" -> Return([detail |-> "Not found"])
      [] b.kind = "error_body" ->
            Return([error |-> "usage limit", query |-> q, results |-> b.items])
      [] b.kind = "results" -> Return([query |-> q, results |-> b.items])

\* lines 181-189
SearchTavilyBody(b, q, m) ==
    LET o == TavilyClientSearch(b, q, m) IN
    IF Raised(o) THEN o
    ELSE IF ~IsDict(o.returns) THEN Raise("TypeError")
    ELSE Return(SetItem(o.returns, "provider", "tavily"))

SearchTavily(b, q, m) == TryExcept(SearchTavilyBody(b, q, m), "Tavily search error: ", q)

\* lines 156-163
SerperResults(organic, m) ==
    LET kept == SliceTo(organic, m) IN
    [i \in 1..Len(kept) |->
        [title |-> Get(kept[i], "title", ""),
         url |-> Get(kept[i], "link", ""),
         content |-> Get(kept[i], "snippet", ""),
         score |-> ScoreOne]]

\* response.raise_for_status() raises HTTPError: requests does so for the client
\* and server error classes, 400 <= status_code < 600
RaiseForStatus(status_code) == 400 <= status_code /\ status_code < 600

\* lines 144-169
SearchSerperBody(b, q, m) ==
    IF b.kind = "raises" THEN Raise(b.exc)
    ELSE IF RaiseForStatus(b.status_code) THEN Raise("HTTPError")
    ELSE IF b.body = "text" THEN Raise("JSONDecodeError")
    ELSE IF b.body = "json_list" THEN Raise("AttributeError")
    ELSE LET organic == IF b.body = "json_organic" THEN b.items ELSE <<>> IN
         Return([results |-> SerperResults(organic, m), query |-> q,
                 provider |-> "serper"])

SearchSerper(b, q, m) == TryExcept(SearchSerperBody(b, q, m), "Serper search error: ", q)

\* lines 125-133
DdgResults(results) ==
    [i \in 1..Len(results) |->
        [title |-> Get(results[i], "title", ""),
         url |-> Get(results[i], "href", ""),
         content |-> Get(results[i], "body", ""),
         score |-> ScoreOne]]

\* the provider label copied from the Serper adapter
SearchDuckDuckGoBody_serperLabel(b, q, m) ==
    CASE b.kind = "not_loaded" -> Raise("NameError")
      [] b.kind \in {"ctor_raises", "text_raises"} -> Raise(b.exc)
      [] b.kind = "results" ->
            Return([results |-> DdgResults(b.items), query |-> q,
                    provider |-> "serper"])

\* lines 122-136
SearchDuckDuckGoBody(b, q, m) ==
    CASE b.kind = "not_loaded" -> Raise("NameError")
      [] b.kind \in {"ctor_raises", "text_raises"} -> Raise(b.exc)
      [] b.kind = "results" ->
            Return([results |-> DdgResults(b.items), query |-> q,
                    provider |-> "duckduckgo"])

SearchDuckDuckGo(b, q, m) ==
    TryExcept(SearchDuckDuckGoBody(b, q, m), "DuckDuckGo search error: ", q)

\* whether the adapter's call reaches the backend over the network
ContactsBackend(p, b) ==
    CASE p = "tavily" -> b.kind # "no_client"
      [] p = "serper" -> TRUE
      [] p = "duckduckgo" -> b.kind \notin {"not_loaded", "ctor_raises"}

----------------------------------------------------------------------------
(* Module load: lines 11-28 *)

NoResult == [pending |-> TRUE]
NoPrevious == [first |-> TRUE]
NoIo == [tool |-> "none"]
NoBackend == [p \in {"tavily", "serper", "duckduckgo"} |-> [kind |-> "unset"]]
Queries == {"rust ownership model", "tla+"}
SerperKeys == {None, "", "sk-serper"}

Init ==
    /\ pc = "Unloaded"
    /\ tavily_client = None
    /\ serper_api_key = None
    /\ ddg_available = FALSE
    /\ query = ""
    /\ max_results = 1
    /\ backend = NoBackend
    /\ attempts = <<>>
    /\ network = <<>>
    /\ result = NoResult
    /\ previous = NoPrevious
    /\ io = NoIo
    /\ outcome = NoResult

\* has_tavily: settings.has_tavily; tavily: how "from tavily import TavilyClient;
\* TavilyClient(api_key=...)" ends; key: os.environ.get("SERPER_API_KEY");
\* ddg: how "from duckduckgo_search import DDGS" ends
ModuleLoad ==
    /\ pc = "Unloaded"
    /\ \E has_tavily \in BOOLEAN, tavily \in {"ok", "ImportError", "Exception"},
          key \in SerperKeys, ddg \in {"ok", "ImportError"} :
          /\ serper_api_key' = key
          /\ IF has_tavily /\ tavily = "Exception"
             THEN \* only ImportError is caught: the import of tools.py fails
                  /\ pc' = "LoadFailed"
                  /\ UNCHANGED <<tavily_client, ddg_available>>
             ELSE /\ pc' = "NotStarted"
                  /\ tavily_client' =
                       IF has_tavily /\ tavily = "ok" THEN TavilyClientObject ELSE None
                  /\ ddg_available' = (ddg = "ok")
    /\ UNCHANGED <<call, previous, tools>>

----------------------------------------------------------------------------
(* Registry queries: lines 31-44 *)

\* lines 31-33
IsSearchAvailable ==
    tavily_client # None \/ serper_api_key # None \/ ddg_available

\* lines 36-44
GetSearchProvider ==
    IF tavily_client # None THEN "Tavily"
    ELSE IF serper_api_key # None THEN "Serper"
    ELSE IF ddg_available THEN "DuckDuckGo"
    ELSE None

----------------------------------------------------------------------------
(* web_search: lines 230-252 *)

\* the DuckDuckGo block entered without its guard
DdgGuard_always == TRUE

\* the Tavily client given up after the first finished search
TavilyGuard_firstSearchOnly == Truthy(tavily_client) /\ previous = NoPrevious

\* "if _tavily_client:", "if _serper_api_key:", "if _ddg_available:"
TavilyGuard == Truthy(tavily_client)
SerperGuard == Truthy(serper_api_key)
DdgGuard == ddg_available

\* the test inverted: '"error" in result'
NoErrorIn_inverted(r) == "error" \in DOMAIN r

\* '"error" not in result'
NoErrorIn(r) == "error" \notin DOMAIN r

\* a Tavily error falling through to DuckDuckGo; a Serper error tried again
AfterTavily_skipSerper == "TryingDuckDuckGo"
AfterSerper_retry == "TryingSerper"

\* the chain started over after the DuckDuckGo block
AfterDuckDuckGo_restart == "TryingTavily"

\* where control goes when a provider is skipped or its response carries an error
AfterTavily == "TryingSerper"
AfterSerper == "TryingDuckDuckGo"
AfterDuckDuckGo == "NoProvider"

\* the last adapter's own error handed back instead of the generic one
NoProviderResponse_lastError ==
    IF attempts # <<>> THEN attempts[Len(attempts)].outcome.returns
    ELSE [error |-> "No search provider available.", query |-> query]

\* lines 249-252
NoProviderResponse ==
    [error |-> "No search provider available. Set TAVILY_API_KEY or SERPER_API_KEY, or install duckduckgo-search (pip install duckduckgo-search).",
     query |-> query]

\* the caller enters web_search(q, m); the environment fixes how each backend
\* that has been set up behaves for the length of this search
WebSearch ==
    /\ pc = "NotStarted"
    /\ \E q \in Queries, m \in 1..MaxMaxResults,
          bt \in (IF tavily_client # None THEN TavilyBehaviours ELSE {TavilyNoClient}),
          bs \in (IF Truthy(serper_api_key) THEN SerperBehaviours ELSE {SerperNoKey}),
          bd \in (IF ddg_available THEN DdgBehaviours ELSE {DdgNotLoaded}) :
          /\ query' = q
          /\ max_results' = m
          /\ backend' = [tavily |-> bt, serper |-> bs, duckduckgo |-> bd]
    /\ pc' = "TryingTavily"
    /\ attempts' = <<>>
    /\ network' = <<>>
    /\ result' = NoResult
    /\ previous' = NoPrevious
    /\ UNCHANGED <<registry, tools>>

\* one "if <guard>: result = <adapter>(...); if 'error' not in result: return result"
TryProvider(guard, p, o, next) ==
    IF guard
    THEN /\ attempts' = Append(attempts, [provider |-> p, outcome |-> o])
         /\ network' = IF ContactsBackend(p, backend[p]) THEN Append(network, p)
                       ELSE network
         /\ IF Raised(o)
            THEN pc' = "Raised" /\ result' = result
            ELSE IF NoErrorIn(o.returns)
            THEN pc' = "Succeeded" /\ result' = o.returns
            ELSE pc' = next /\ result' = result
    ELSE /\ pc' = next
         /\ UNCHANGED <<attempts, network, result>>

\* lines 231-234
TryTavily ==
    /\ pc = "TryingTavily"
    /\ TryProvider(TavilyGuard, "tavily",
                   SearchTavily(backend.tavily, query, max_results), AfterTavily)
    /\ UNCHANGED <<registry, query, max_results, backend, previous, tools>>

\* lines 237-240
TrySerper ==
    /\ pc = "TryingSerper"
    /\ TryProvider(SerperGuard, "serper",
                   SearchSerper(backend.serper, query, max_results), AfterSerper)
    /\ UNCHANGED <<registry, query, max_results, backend, previous, tools>>

\* lines 243-246
TryDuckDuckGo ==
    /\ pc = "TryingDuckDuckGo"
    /\ TryProvider(DdgGuard, "duckduckgo",
                   SearchDuckDuckGo(backend.duckduckgo, query, max_results),
                   AfterDuckDuckGo)
    /\ UNCHANGED <<registry, query, max_results, backend, previous, tools>>

\* lines 248-252
ReturnNoProvider ==
    /\ pc = "NoProvider"
    /\ pc' = "Exhausted"
    /\ result' = NoProviderResponse
    /\ UNCHANGED <<registry, query, max_results, backend, attempts, network,
                   previous, tools>>

----------------------------------------------------------------------------
(* http_request: lines 68-116, and fetch_url: lines 280-298 *)

Urls == {"https://example.com/a", "example.com"}
Timeouts == {5, 30}
FinalUrl == "https://example.com/final"
\* a server may send any three-digit status; 600 is outside the standard classes
StatusCodes == {200, 399, 400, 503, 600}
EmptyDict == [k \in {} |-> ""]

\* requests.request(...) / requests.get(...): raises, or returns a response
Transports ==
    { [kind |-> "raises", exc |-> e] :
        e \in {"ConnectTimeout", "ReadTimeout", "ConnectionError", "MissingSchema",
               "ValueError"} }
    \cup { [kind |-> "response", status_code |-> c, body |-> b, redirected |-> r] :
             c \in StatusCodes, b \in {"json", "html"}, r \in BOOLEAN }

\* response.url, response.headers, response.text, response.json()
ResponseUrl(t, url) == IF t.redirected THEN FinalUrl ELSE url
ResponseHeaders(t) ==
    IF t.body = "json" THEN [content_type |-> "application/json"]
    ELSE [content_type |-> "text/html"]
ResponseText(t) == IF t.body = "json" THEN "{\"a\": 1}" ELSE "<p>Hello</p>"
ResponseJson(t) ==
    IF t.body = "json" THEN Return([json |-> [a |-> 1]]) ELSE Raise("JSONDecodeError")

\* the exception classes of requests named by the except clauses
ExceptTimeout(e) == e \in {"ConnectTimeout", "ReadTimeout"}
ExceptRequestException(e) ==
    e \in {"ConnectTimeout", "ReadTimeout", "ConnectionError", "MissingSchema",
           "HTTPError"}

\* status 400 itself counted as a success
HttpSuccess_inclusive(status_code) == status_code <= 400

\* line 86
HttpSuccess(status_code) == status_code < 400

\* lines 80-83: try: content = response.json() / except: content = response.text
HttpContent(t) ==
    IF Raised(ResponseJson(t)) THEN [text |-> ResponseText(t)]
    ELSE ResponseJson(t).returns

\* lines 69-91
HttpRequestBody(url, timeout, t) ==
    IF t.kind = "raises" THEN Raise(t.exc)
    ELSE Return([success |-> HttpSuccess(t.status_code),
                 status_code |-> t.status_code,
                 headers |-> ResponseHeaders(t),
                 content |-> HttpContent(t),
                 url |-> ResponseUrl(t, url)])

\* lines 94-116: the dict the three except clauses build
HttpFailure(url, content) ==
    [success |-> FALSE, status_code |-> 0, headers |-> EmptyDict,
     content |-> content, url |-> url]

\* http_request without its last clause, "except Exception"
HttpRequest_noCatchAll(url, timeout, t) ==
    LET o == HttpRequestBody(url, timeout, t) IN
    IF ~Raised(o) THEN o
    ELSE IF ExceptTimeout(o.raises)
    THEN Return(HttpFailure(url, [timed_out_after |-> timeout]))
    ELSE IF ExceptRequestException(o.raises)
    THEN Return(HttpFailure(url, [prefix |-> "Request error: ", exc |-> o.raises]))
    ELSE o

\* lines 68-116
HttpRequest(url, timeout, t) ==
    LET o == HttpRequestBody(url, timeout, t) IN
    IF ~Raised(o) THEN o
    ELSE IF ExceptTimeout(o.raises)
    THEN Return(HttpFailure(url, [timed_out_after |-> timeout]))
    ELSE IF ExceptRequestException(o.raises)
    THEN Return(HttpFailure(url, [prefix |-> "Request error: ", exc |-> o.raises]))
    ELSE IF ExceptException(o.raises)
    THEN Return(HttpFailure(url, [prefix |-> "Error making request: ",
                                  exc |-> o.raises]))
    ELSE o

\* markdownify(response.text), as the characters of the markdown text
Markdownify(text) ==
    IF text = "<p>Hello</p>" THEN <<"H", "e", "l", "l", "o">>
    ELSE <<"{", "\"", "a", "\"", ":", " ", "1", "}">>

\* lines 281-296
FetchUrlBody(url, timeout, t) ==
    IF t.kind = "raises" THEN Raise(t.exc)
    ELSE IF RaiseForStatus(t.status_code) THEN Raise("HTTPError")
    ELSE LET markdown_content == Markdownify(ResponseText(t)) IN
         Return([url |-> ResponseUrl(t, url),
                 markdown_content |-> markdown_content,
                 status_code |-> t.status_code,
                 content_length |-> Len(markdown_content)])

\* lines 280-298
FetchUrl(url, timeout, t) ==
    LET o == FetchUrlBody(url, timeout, t) IN
    IF Raised(o) /\ ExceptException(o.raises)
    THEN Return([error |-> <<"Fetch URL error: ", o.raises>>, url |-> url])
    ELSE o

\* the caller runs http_request(url, timeout=timeout) to its end
HttpRequestCall ==
    /\ pc = "NotStarted"
    /\ \E url \in Urls, timeout \in Timeouts, t \in Transports :
          /\ io' = [tool |-> "http_request", url |-> url, timeout |-> timeout,
                    transport |-> t]
          /\ outcome' = HttpRequest(url, timeout, t)
          /\ pc' = IF Raised(HttpRequest(url, timeout, t)) THEN "Raised"
                   ELSE "ToolReturned"
    /\ UNCHANGED <<registry, call, previous>>

\* the caller runs fetch_url(url, timeout) to its end
FetchUrlCall ==
    /\ pc = "NotStarted"
    /\ \E url \in Urls, timeout \in Timeouts, t \in Transports :
          /\ io' = [tool |-> "fetch_url", url |-> url, timeout |-> timeout,
                    transport |-> t]
          /\ outcome' = FetchUrl(url, timeout, t)
          /\ pc' = IF Raised(FetchUrl(url, timeout, t)) THEN "Raised"
                   ELSE "ToolReturned"
    /\ UNCHANGED <<registry, call, previous>>

\* the caller runs web_search again with the same arguments while the registry
\* and the backends' behaviour are as before; the first execution is remembered
SearchAgain ==
    /\ pc \in {"Succeeded", "Exhausted"}
    /\ previous = NoPrevious
    /\ previous' = [attempts |-> attempts, result |-> result]
    /\ pc' = "TryingTavily"
    /\ attempts' = <<>>
    /\ network' = <<>>
    /\ result' = NoResult
    /\ UNCHANGED <<registry, query, max_results, backend, tools>>

\* the caller consumes the response; the next call starts afresh
Consume ==
    /\ pc \in {"Succeeded", "Exhausted", "ToolReturned"}
    /\ pc' = "NotStarted"
    /\ query' = ""
    /\ max_results' = 1
    /\ backend' = NoBackend
    /\ attempts' = <<>>
    /\ network' = <<>>
    /\ result' = NoResult
    /\ previous' = NoPrevious
    /\ io' = NoIo
    /\ outcome' = NoResult
    /\ UNCHANGED registry

Next ==
    \/ ModuleLoad
    \/ HttpRequestCall
    \/ FetchUrlCall
    \/ WebSearch
    \/ TryTavily
    \/ TrySerper
    \/ TryDuckDuckGo
    \/ ReturnNoProvider
    \/ SearchAgain
    \/ Consume

Spec == Init /\ [][Next]_vars

\* web_search is straight-line code: once entered, each block runs as soon as the
\* one before it has returned
FairSpec ==
    /\ Spec
    /\ WF_vars(TryTavily)
    /\ WF_vars(TrySerper)
    /\ WF_vars(TryDuckDuckGo)
    /\ WF_vars(ReturnNoProvider)

----------------------------------------------------------------------------
(* Vocabulary of the properties, stated on the state alone *)

Rank(p) == CASE p = "tavily" -> 1 [] p = "serper" -> 2 [] p = "duckduckgo" -> 3

\* a provider the dispatcher can use: a client object, a non-empty key, a loaded module
Available(p) ==
    CASE p = "tavily" -> tavily_client = TavilyClientObject
      [] p = "serper" -> serper_api_key \notin {None, ""}
      [] p = "duckduckgo" -> ddg_available = TRUE

ProviderSet == {"tavily", "serper", "duckduckgo"}
InSearch == pc \in {"TryingTavily", "TryingSerper", "TryingDuckDuckGo", "NoProvider",
                    "Succeeded", "Exhausted", "Raised"}
Finished == pc \in {"Succeeded", "Exhausted"}

Attempted(p) == \E i \in 1..Len(attempts) : attempts[i].provider = p
CarriesError(o) == ~Raised(o) /\ "error" \in DOMAIN o.returns
CarriesNoError(o) == ~Raised(o) /\ "error" \notin DOMAIN o.returns
AttemptedWithError(p) ==
    \E i \in 1..Len(attempts) :
        attempts[i].provider = p /\ CarriesError(attempts[i].outcome)

GenericExhaustionError ==
    [error |-> "No search provider available. Set TAVILY_API_KEY or SERPER_API_KEY, or install duckduckgo-search (pip install duckduckgo-search).",
     query |-> query]

\* what provider p's adapter returns in the current search
AdapterOutcome(p) ==
    CASE p = "tavily" -> SearchTavily(backend.tavily, query, max_results)
      [] p = "serper" -> SearchSerper(backend.serper, query, max_results)
      [] p = "duckduckgo" -> SearchDuckDuckGo(backend.duckduckgo, query, max_results)

\* what the body of p's adapter does before its except clause
AdapterBody(p) ==
    CASE p = "tavily" -> SearchTavilyBody(backend.tavily, query, max_results)
      [] p = "serper" -> SearchSerperBody(backend.serper, query, max_results)
      [] p = "duckduckgo" -> SearchDuckDuckGoBody(backend.duckduckgo, query, max_results)

----------------------------------------------------------------------------
(* C1: adapters are invoked only in the order Tavily, Serper, DuckDuckGo; an   *)
(* adapter response without an error is the last invocation of the search and *)
(* is what web_search returns, so no lower-priority adapter runs after it.    *)
C1_PriorityOrderFirstSuccessWins ==
    /\ \A i, j \in 1..Len(attempts) :
          i < j => Rank(attempts[i].provider) < Rank(attempts[j].provider)
    /\ \A i \in 1..Len(attempts) :
          CarriesNoError(attempts[i].outcome) =>
             /\ i = Len(attempts)
             /\ pc = "Succeeded"
             /\ result = attempts[i].outcome.returns
    /\ pc = "Succeeded" =>
          /\ attempts # <<>>
          /\ CarriesNoError(attempts[Len(attempts)].outcome)
          /\ \A p \in ProviderSet :
                Rank(p) > Rank(attempts[Len(attempts)].provider) => ~Attempted(p)

\* Tavily errs, Serper answers, and DuckDuckGo, loaded and able to answer, is not asked
C1_Witness ==
    /\ pc = "Succeeded"
    /\ Len(attempts) = 2
    /\ attempts[1].provider = "tavily"
    /\ attempts[2].provider = "serper"
    /\ result.provider = "serper"
    /\ ddg_available
    /\ backend.duckduckgo.kind = "results"

(* C2: with no Tavily client, no usable Serper key and no DuckDuckGo module,    *)
(* a search invokes no adapter, contacts no backend and returns the            *)
(* "No search provider available" error with the caller's query.               *)
C2_NoProviderNoCall ==
    (InSearch /\ \A p \in ProviderSet : ~Available(p)) =>
        /\ attempts = <<>>
        /\ network = <<>>
        /\ pc \notin {"Succeeded", "Raised"}
        /\ pc = "Exhausted" => result = GenericExhaustionError

C2_Witness ==
    /\ pc = "Exhausted"
    /\ \A p \in ProviderSet : ~Available(p)
    /\ result = GenericExhaustionError

(* C3: when some provider is available and every available adapter returns an  *)
(* error response, the finished search is Exhausted, has invoked exactly the   *)
(* available adapters, and returns the generic exhaustion error, which is      *)
(* none of the adapters' own error responses.                                  *)
C3_AllErrorsExhausted ==
    ( /\ Finished
      /\ \E p \in ProviderSet : Available(p)
      /\ \A p \in ProviderSet : Available(p) => CarriesError(AdapterOutcome(p)) )
    =>
      /\ pc = "Exhausted"
      /\ result = GenericExhaustionError
      /\ \A p \in ProviderSet : Attempted(p) <=> Available(p)
      /\ \A i \in 1..Len(attempts) :
            /\ attempts[i].outcome = AdapterOutcome(attempts[i].provider)
            /\ attempts[i].outcome.returns # result

C3_Witness ==
    /\ pc = "Exhausted"
    /\ Len(attempts) = 3
    /\ \A i \in 1..3 : CarriesError(attempts[i].outcome)
    /\ result = GenericExhaustionError

(* C4: an adapter has been invoked only if its provider is available and every *)
(* available higher-priority provider was invoked before it and returned an    *)
(* error; and once the search is past a provider's turn, the adapter has been  *)
(* invoked if those conditions hold.                                           *)
PastTurnOf(p) ==
    \/ pc \in {"NoProvider", "Succeeded", "Exhausted"}
    \/ pc = "TryingSerper" /\ p = "tavily"
    \/ pc = "TryingDuckDuckGo" /\ p \in {"tavily", "serper"}

HigherAllFailed(p) ==
    \A q \in ProviderSet :
        (Rank(q) < Rank(p) /\ Available(q)) => AttemptedWithError(q)

C4_InvokedIffReached ==
    InSearch =>
      \A p \in ProviderSet :
        /\ Attempted(p) => (Available(p) /\ HigherAllFailed(p))
        /\ (PastTurnOf(p) /\ Available(p) /\ HigherAllFailed(p)) => Attempted(p)

\* no Tavily client: Serper errs and the search advances to DuckDuckGo
C4_Witness ==
    /\ ~Available("tavily")
    /\ Len(attempts) = 2
    /\ attempts[1].provider = "serper"
    /\ CarriesError(attempts[1].outcome)
    /\ attempts[2].provider = "duckduckgo"

(* C5: in one search no provider's adapter is invoked twice, and a returned     *)
(* success response is the response of exactly one invocation, unchanged.      *)
C5_NoRetryNoMerge ==
    /\ \A i, j \in 1..Len(attempts) :
          attempts[i].provider = attempts[j].provider => i = j
    /\ pc = "Succeeded" =>
          /\ Cardinality({i \in 1..Len(attempts) :
                            CarriesNoError(attempts[i].outcome)}) = 1
          /\ Cardinality({i \in 1..Len(attempts) :
                            attempts[i].outcome = Return(result)}) = 1

\* two providers erred and the third one's results are returned
C5_Witness ==
    /\ pc = "Succeeded"
    /\ Len(attempts) = 3
    /\ "results" \in DOMAIN result
    /\ Len(result.results) > 0
    /\ result.provider = "duckduckgo"

----------------------------------------------------------------------------
ResultFields == {"title", "url", "content", "score"}

(* C7: a returned response is either a success (results, query and provider,    *)
(* no error key) or a failure (error and query, no results).                   *)
C7_TwoShapes ==
    Finished =>
        \/ /\ {"results", "query", "provider"} \subseteq DOMAIN result
           /\ "error" \notin DOMAIN result
        \/ /\ {"error", "query"} \subseteq DOMAIN result
           /\ "results" \notin DOMAIN result

(* C8: every result item of every success response an adapter returns has the   *)
(* four fields title, url, content and score.                                  *)
C8_AllFieldsPopulated ==
    \A i \in 1..Len(attempts) :
        LET o == attempts[i].outcome IN
        (CarriesNoError(o) /\ "results" \in DOMAIN o.returns) =>
            \A k \in 1..Len(o.returns.results) :
                ResultFields \subseteq DOMAIN o.returns.results[k]

(* C9: in a returned success response every item's score lies in [0,1], and it *)
(* is exactly 1.0 when Serper or DuckDuckGo produced the response.             *)
C9_ScoreInUnitInterval ==
    (pc = "Succeeded" /\ "results" \in DOMAIN result) =>
        \A k \in 1..Len(result.results) :
            LET item == result.results[k] IN
            /\ "score" \in DOMAIN item
            /\ item.score >= 0
            /\ item.score <= ScoreOne
            /\ result.provider \in {"serper", "duckduckgo"} => item.score = ScoreOne

(* C10: a returned success response holds at most max_results result items.    *)
C10_AtMostMaxResults ==
    (pc = "Succeeded" /\ "results" \in DOMAIN result) =>
        Len(result.results) <= max_results

----------------------------------------------------------------------------
IsHttpRequest == io.tool = "http_request"
IsFetchUrl == io.tool = "fetch_url"
TransportFailed == io.transport.kind = "raises"

(* C11: http_request never raises; when the transport raises (a timeout, a      *)
(* connection failure, any other fault) it returns success false, status_code  *)
(* 0, empty headers, the caller's url and a diagnostic in content, which for a *)
(* timeout names the caller's timeout.                                         *)
C11_HttpRequestNeverRaises ==
    IsHttpRequest =>
        /\ ~Raised(outcome)
        /\ TransportFailed =>
              /\ outcome.returns.success = FALSE
              /\ outcome.returns.status_code = 0
              /\ DOMAIN outcome.returns.headers = {}
              /\ outcome.returns.url = io.url
              /\ DOMAIN outcome.returns.content \in
                    {{"timed_out_after"}, {"prefix", "exc"}}
              /\ io.transport.exc \in {"ConnectTimeout", "ReadTimeout"} =>
                    outcome.returns.content = [timed_out_after |-> io.timeout]
              /\ io.transport.exc \notin {"ConnectTimeout", "ReadTimeout"} =>
                    /\ "exc" \in DOMAIN outcome.returns.content
                    /\ outcome.returns.content.exc = io.transport.exc

\* a fault that is no RequestException ends as a returned outcome
C11_Witness ==
    /\ IsHttpRequest
    /\ TransportFailed
    /\ io.transport.exc = "ValueError"
    /\ ~Raised(outcome)
    /\ outcome.returns.content.prefix = "Error making request: "

(* C12: in every outcome http_request returns, success is true exactly when the *)
(* transport returned a response whose status_code is below 400; the outcome    *)
(* carries the response's status_code, and a body that is not JSON is returned  *)
(* as raw text without changing success or status_code.                         *)
C12_SuccessIffBelow400 ==
    (IsHttpRequest /\ ~Raised(outcome)) =>
        /\ outcome.returns.success <=>
              (~TransportFailed /\ io.transport.status_code < 400)
        /\ ~TransportFailed =>
              /\ outcome.returns.status_code = io.transport.status_code
              /\ io.transport.body = "html" =>
                    outcome.returns.content = [text |-> "<p>Hello</p>"]
              /\ io.transport.body = "json" =>
                    outcome.returns.content = [json |-> [a |-> 1]]

\* status 400 with a body that is not JSON: raw text, success false
C12_Witness ==
    /\ IsHttpRequest
    /\ ~TransportFailed
    /\ io.transport.status_code = 400
    /\ io.transport.body = "html"
    /\ ~Raised(outcome)
    /\ outcome.returns.success = FALSE
    /\ "text" \in DOMAIN outcome.returns.content

(* C13: fetch_url never raises; when the transport fails or the response status *)
(* is 400 or above it returns exactly {error, url} with the caller's url, and   *)
(* it returns the success shape only for a status below 400.                    *)
C13_FetchErrorShape ==
    IsFetchUrl =>
        /\ ~Raised(outcome)
        /\ IF TransportFailed \/ io.transport.status_code >= 400
           THEN /\ DOMAIN outcome.returns = {"error", "url"}
                /\ outcome.returns.url = io.url
           ELSE DOMAIN outcome.returns =
                    {"url", "markdown_content", "status_code", "content_length"}

(* C14: module initialisation never raises: whatever makes the construction of  *)
(* the Tavily client fail, the load completes with a registry snapshot.         *)
C14_InitNeverRaises == pc # "LoadFailed"

(* C15: once the module is loaded, is_search_available() is true exactly when   *)
(* some provider is available to the dispatcher, and a finished search has      *)
(* invoked at least one adapter exactly when is_search_available() is true.     *)
C15_AvailableIffDispatchable ==
    pc \notin {"Unloaded", "LoadFailed"} =>
        /\ IsSearchAvailable <=> (\E p \in ProviderSet : Available(p))
        /\ Finished => (IsSearchAvailable <=> attempts # <<>>)

(* C16: a returned success response has a provider field naming the provider    *)
(* whose adapter was the last one invoked, and no error key; with only          *)
(* DuckDuckGo available and succeeding the provider is duckduckgo.              *)
C16_ProviderNamesProducer ==
    pc = "Succeeded" =>
        /\ "provider" \in DOMAIN result
        /\ result.provider = attempts[Len(attempts)].provider
        /\ "error" \notin DOMAIN result
        /\ (~Available("tavily") /\ ~Available("serper")) =>
              result.provider = "duckduckgo"

\* registry with only the no-credential backend, which answers
C16_Witness ==
    /\ pc = "Succeeded"
    /\ ~Available("tavily")
    /\ ~Available("serper")
    /\ Available("duckduckgo")
    /\ query = "rust ownership model"
    /\ "provider" \in DOMAIN result
    /\ result.provider = "duckduckgo"

(* C18: get_search_provider() names the provider whose adapter web_search        *)
(* invokes first, and is None exactly when a finished search invoked none.      *)
ProviderTitle(p) ==
    CASE p = "tavily" -> "Tavily" [] p = "serper" -> "Serper"
      [] p = "duckduckgo" -> "DuckDuckGo"

C18_ProviderIsFirstTried ==
    InSearch =>
        /\ attempts # <<>> => GetSearchProvider = ProviderTitle(attempts[1].provider)
        /\ (Finished /\ attempts = <<>>) => GetSearchProvider = None

(* C19: every response web_search returns has a query field equal to the        *)
(* caller's query.                                                              *)
C19_QueryEchoed ==
    Finished => ("query" \in DOMAIN result /\ result.query = query)

C20_SearchTerminates ==
    /\ [](InSearch =>
            Len(attempts) <= Cardinality({p \in ProviderSet : Available(p)}))
    /\ (pc \in {"TryingTavily", "TryingSerper", "TryingDuckDuckGo", "NoProvider"})
          ~> Finished

\* two providers available, both invoked, both failed
C20_Witness ==
    /\ pc = "Exhausted"
    /\ previous = NoPrevious
    /\ Cardinality({p \in ProviderSet : Available(p)}) = 2
    /\ Len(attempts) = 2

====
